---- MODULE Spec2Model ----
(***************************************************************************)
(* Charm / bundle URL parsing (package charm): ParseURL and its three      *)
(* grammars (parseV1URL, parseV3URL, parseV2URL), URL.String, InferURL and *)
(* URL.WithRevision.                                                       *)
(*                                                                         *)
(* A Go string is modelled as a sequence of one-character strings, so that *)
(* splitting, prefix tests, integer conversion and rendering are computed  *)
(* character by character as the code computes them.  The alphabet is      *)
(* lower-case letters, digits and the punctuation  - + ~ / : . ? # @       *)
(* (no upper-case letters, no '%' escapes, no control bytes).              *)
(***************************************************************************)
EXTENDS Integers, Sequences, FiniteSets, TLC

Letters ==
    {"a", "b", "c", "d", "e", "f", "g", "h", "i", "j", "k", "l", "m",
     "n", "o", "p", "q", "r", "s", "t", "u", "v", "w", "x", "y", "z"}

Digits == {"0", "1", "2", "3", "4", "5", "6", "7", "8", "9"}

DigitVal(c) ==
    CASE c = "0" -> 0 [] c = "1" -> 1 [] c = "2" -> 2 [] c = "3" -> 3
      [] c = "4" -> 4 [] c = "5" -> 5 [] c = "6" -> 6 [] c = "7" -> 7
      [] c = "8" -> 8 [] c = "9" -> 9

DigitChar(d) ==
    CASE d = 0 -> "0" [] d = 1 -> "1" [] d = 2 -> "2" [] d = 3 -> "3"
      [] d = 4 -> "4" [] d = 5 -> "5" [] d = 6 -> "6" [] d = 7 -> "7"
      [] d = 8 -> "8" [] d = 9 -> "9"

(***************************************************************************)
(* Library functions the parser calls.                                     *)
(***************************************************************************)

\* s[from:] with a 0-based Go index
Drop(s, from) == SubSeq(s, from + 1, Len(s))

\* s[:to] with a 0-based Go index
Take(s, to) == SubSeq(s, 1, to)

\* strings.HasPrefix
HasPrefix(s, p) == Len(s) >= Len(p) /\ SubSeq(s, 1, Len(p)) = p

RECURSIVE IndexFrom(_, _, _)
IndexFrom(s, c, i) ==
    IF i > Len(s) THEN -1
    ELSE IF s[i] = c THEN i - 1
    ELSE IndexFrom(s, c, i + 1)

\* strings.Index for a one-byte separator: 0-based position or -1
Index(s, c) == IndexFrom(s, c, 1)

RECURSIVE SplitFrom(_, _, _, _)
SplitFrom(s, sep, i, cur) ==
    IF i > Len(s) THEN <<cur>>
    ELSE IF s[i] = sep THEN <<cur>> \o SplitFrom(s, sep, i + 1, <<>>)
    ELSE SplitFrom(s, sep, i + 1, Append(cur, s[i]))

\* strings.Split(s, sep) for a one-byte separator; Split("", sep) = [""]
Split(s, sep) == SplitFrom(s, sep, 1, <<>>)

RECURSIVE Join(_, _)
\* strings.Join(parts, sep)
Join(parts, sep) ==
    IF Len(parts) = 0 THEN <<>>
    ELSE IF Len(parts) = 1 THEN parts[1]
    ELSE parts[1] \o sep \o Join(Tail(parts), sep)

RECURSIVE TrimLeft(_, _)
TrimLeft(s, c) ==
    IF Len(s) > 0 /\ s[1] = c THEN TrimLeft(Tail(s), c) ELSE s

RECURSIVE TrimRight(_, _)
TrimRight(s, c) ==
    IF Len(s) > 0 /\ s[Len(s)] = c THEN TrimRight(Take(s, Len(s) - 1), c) ELSE s

\* strings.Trim(s, cutset) for a one-byte cutset
Trim(s, c) == TrimRight(TrimLeft(s, c), c)

\* The largest value of Go's int on a 32-bit build (on a 64-bit build the
\* same conversions fail from 2^63 on).
MaxInt == 2147483647

AtoiFail == [ok |-> FALSE, val |-> 0]

RECURSIVE ParseDigits(_, _, _)
ParseDigits(s, i, acc) ==
    IF i > Len(s) THEN [ok |-> TRUE, val |-> acc]
    ELSE IF s[i] \notin Digits THEN AtoiFail
    ELSE IF acc > (MaxInt - DigitVal(s[i])) \div 10 THEN AtoiFail
    ELSE ParseDigits(s, i + 1, acc * 10 + DigitVal(s[i]))

\* strconv.Atoi: an optional sign, then one or more decimal digits, in the
\* range of int.  ok is err == nil.
Atoi(s) ==
    IF Len(s) = 0 THEN AtoiFail
    ELSE LET signed == s[1] \in {"+", "-"}
             body   == IF signed THEN Tail(s) ELSE s
             r      == IF Len(body) = 0 THEN AtoiFail ELSE ParseDigits(body, 1, 0)
         IN  IF ~r.ok THEN AtoiFail
             ELSE [ok |-> TRUE, val |-> IF s[1] = "-" THEN 0 - r.val ELSE r.val]

RECURSIVE Itoa(_)
\* fmt.Sprintf("%d", n)
Itoa(n) ==
    IF n < 0 THEN <<"-">> \o Itoa(0 - n)
    ELSE IF n < 10 THEN <<DigitChar(n)>>
    ELSE Itoa(n \div 10) \o <<DigitChar(n % 10)>>

(***************************************************************************)
(* Validators.                                                             *)
(***************************************************************************)

S_trusty == <<"t", "r", "u", "s", "t", "y">>
S_bundle == <<"b", "u", "n", "d", "l", "e">>

\* validSeries: series.SupportedSeries() plus "bundle".  Of the supported
\* series the model keeps one.
validSeries == {S_trusty, S_bundle}

IsValidSeries(series) == series \in validSeries

AllIn(s, set) == \A i \in 1..Len(s) : s[i] \in set

NameHead(p) == Len(p) >= 1 /\ p[1] \in Letters /\ AllIn(p, Letters \cup Digits)

NameTail(p) == AllIn(p, Letters \cup Digits) /\ \E i \in 1..Len(p) : p[i] \in Letters

\* validName: ^[a-z][a-z0-9]*(-[a-z0-9]*[a-z][a-z0-9]*)*$
IsValidName(name) ==
    LET ps == Split(name, "-")
    IN  /\ NameHead(ps[1])
        /\ \A k \in 2..Len(ps) : NameTail(ps[k])

\* names.IsValidUser: ^[a-zA-Z0-9][a-zA-Z0-9.+-]*[a-zA-Z0-9]$ (an optional
\* @domain cannot occur inside a path segment of the alphabet used here).
IsValidUser(user) ==
    /\ Len(user) >= 2
    /\ user[1] \in Letters \cup Digits
    /\ user[Len(user)] \in Letters \cup Digits
    /\ AllIn(user, Letters \cup Digits \cup {".", "+", "-"})

(***************************************************************************)
(* net/url Parse, as far as ParseURL reads its result: Scheme, Opaque,     *)
(* Path, RawQuery, Fragment and whether User is set.                       *)
(***************************************************************************)

RECURSIVE getscheme(_, _)
\* [err, scheme, rest]: the scheme is the text before the first ':' when all
\* of it is letters, digits, '+', '-' or '.', and it starts with a letter.
getscheme(rawurl, i) ==
    IF i > Len(rawurl) THEN [err |-> FALSE, scheme |-> <<>>, rest |-> rawurl]
    ELSE IF rawurl[i] \in Letters THEN getscheme(rawurl, i + 1)
    ELSE IF rawurl[i] \in {"+", "-", "."} \cup Digits
         THEN IF i = 1 THEN [err |-> FALSE, scheme |-> <<>>, rest |-> rawurl]
              ELSE getscheme(rawurl, i + 1)
    ELSE IF rawurl[i] = ":"
         THEN IF i = 1 THEN [err |-> TRUE, scheme |-> <<>>, rest |-> <<>>]
              ELSE [err |-> FALSE, scheme |-> Take(rawurl, i - 1),
                    rest |-> Drop(rawurl, i)]
    ELSE [err |-> FALSE, scheme |-> <<>>, rest |-> rawurl]

\* url.split(s, c, cut = true): around the first c
CutAt(s, c) ==
    IF Index(s, c) < 0 THEN <<s, <<>>>>
    ELSE <<Take(s, Index(s, c)), Drop(s, Index(s, c) + 1)>>

gourlFail ==
    [err |-> TRUE, Scheme |-> <<>>, Opaque |-> <<>>, Path |-> <<>>,
     RawQuery |-> <<>>, Fragment |-> <<>>, User |-> FALSE]

gourlOk(scheme, opaque, path, query, frag, user) ==
    [err |-> FALSE, Scheme |-> scheme, Opaque |-> opaque, Path |-> path,
     RawQuery |-> query, Fragment |-> frag, User |-> user]

\* "//authority/path": the authority runs to the next '/', and holds user
\* information when it contains '@'
gourlAuthority(scheme, afterSlashes, query, frag) ==
    IF Index(afterSlashes, "/") < 0
    THEN gourlOk(scheme, <<>>, <<>>, query, frag, Index(afterSlashes, "@") >= 0)
    ELSE gourlOk(scheme, <<>>, Drop(afterSlashes, Index(afterSlashes, "/")), query, frag,
                 Index(Take(afterSlashes, Index(afterSlashes, "/")), "@") >= 0)

\* After the scheme and the query are split off: a rootless rest after a
\* scheme is opaque; without a scheme a colon in the first segment is an
\* error; "//" (but not a bare "///") starts an authority.
gourlRest(scheme, rest, query, frag) ==
    IF ~HasPrefix(rest, <<"/">>) /\ scheme # <<>>
         THEN gourlOk(scheme, rest, <<>>, query, frag, FALSE)
    ELSE IF /\ ~HasPrefix(rest, <<"/">>)
            /\ Index(rest, ":") >= 0
            /\ (Index(rest, "/") < 0 \/ Index(rest, ":") < Index(rest, "/"))
         THEN gourlFail
    ELSE IF /\ HasPrefix(rest, <<"/", "/">>)
            /\ (scheme # <<>> \/ ~HasPrefix(rest, <<"/", "/", "/">>))
         THEN gourlAuthority(scheme, Drop(rest, 2), query, frag)
    ELSE gourlOk(scheme, <<>>, rest, query, frag, FALSE)

gourlQuery(scheme, qr, frag) == gourlRest(scheme, qr[1], qr[2], frag)

gourlScheme(sch, frag) ==
    IF sch.err THEN gourlFail
    ELSE gourlQuery(sch.scheme, CutAt(sch.rest, "?"), frag)

gourlFragment(fr) == gourlScheme(getscheme(fr[1], 1), fr[2])

\* gourl.Parse(rawurl)
gourlParse(rawurl) == gourlFragment(CutAt(rawurl, "#"))

(***************************************************************************)
(* type URL and the result of a parser: err is "ok" (a nil error) or the   *)
(* kind of the error returned, "panic" when the call aborted; url is the   *)
(* URL returned (NilURL stands for a nil *URL); via lists the grammars     *)
(* that were run, in order.                                                *)
(***************************************************************************)

Unset == -1

NilURL ==
    [Schema |-> <<>>, User |-> <<>>, Name |-> <<>>, Revision |-> 0, Series |-> <<>>]

URL(schema, user, name, revision, series) ==
    [Schema |-> schema, User |-> user, Name |-> name, Revision |-> revision,
     Series |-> series]

S_cs == <<"c", "s">>
S_local == <<"l", "o", "c", "a", "l">>
S_http == <<"h", "t", "t", "p">>
S_https == <<"h", "t", "t", "p", "s">>

Fail(kind, by) == [err |-> kind, url |-> NilURL, via |-> <<by>>]

Ok(r, by) == [err |-> "ok", url |-> r, via |-> <<by>>]

(***************************************************************************)
(* parseV1URL, the compact grammar [~user/][series/]name[-revision], in    *)
(* the order of its statements.                                            *)
(***************************************************************************)

RECURSIVE revisionSplit(_, _)
\* The loop over r.Name from index i (0-based) down to 1: the index of the
\* hyphen at which the name is split, or 0 when it is not split.
revisionSplit(name, i) ==
    IF i <= 0 THEN 0
    ELSE IF name[i + 1] \in Digits THEN revisionSplit(name, i - 1)
    ELSE IF name[i + 1] = "-" /\ i # Len(name) - 1 THEN i
    ELSE 0

\* The user and name checks that end parseV1URL
v1Validate(r) ==
    IF r.User # <<>> /\ ~IsValidUser(r.User) THEN Fail("invalid user", "V1")
    ELSE IF ~IsValidName(r.Name) THEN Fail("invalid name", "V1")
    ELSE Ok(r, "V1")

\* r.Revision, err = strconv.Atoi(r.Name[i+1:]); panic on err
v1Revision(schema, user, series, name, conv) ==
    IF ~conv.ok THEN Fail("panic", "V1")
    ELSE v1Validate(URL(schema, user, name, conv.val, series))

\* v1Name that never splits a revision off the name
v1Name_NoSplit(schema, user, series, whole, at) ==
    v1Validate(URL(schema, user, whole, Unset, series))

\* <name>[-<revision>], split at the hyphen found by the loop
v1Name(schema, user, series, whole, at) ==
    IF at > 0
    THEN v1Revision(schema, user, series, Take(whole, at), Atoi(Drop(whole, at + 1)))
    ELSE v1Validate(URL(schema, user, whole, Unset, series))

\* <series>, when two parts are left
v1Series(schema, user, parts) ==
    IF Len(parts) > 2 THEN Fail("invalid form", "V1")
    ELSE IF Len(parts) = 2 /\ ~IsValidSeries(parts[1]) THEN Fail("invalid series", "V1")
    ELSE IF Len(parts) = 2
         THEN v1Name(schema, user, parts[1], parts[2],
                     revisionSplit(parts[2], Len(parts[2]) - 1))
    ELSE IF Len(parts) < 1 THEN Fail("no name", "V1")
    ELSE v1Name(schema, user, <<>>, parts[1],
                revisionSplit(parts[1], Len(parts[1]) - 1))

\* ~<username>
v1User(schema, parts) ==
    IF Len(parts) < 1 \/ Len(parts) > 4 THEN Fail("invalid form", "V1")
    ELSE IF HasPrefix(parts[1], <<"~">>)
         THEN IF schema = S_local THEN Fail("local with user", "V1")
              ELSE v1Series(schema, Tail(parts[1]), Tail(parts))
    ELSE v1Series(schema, <<>>, parts)

parseV1URL(url) ==
    IF url.Scheme # <<>> /\ url.Scheme # S_cs /\ url.Scheme # S_local
    THEN Fail("invalid schema", "V1")
    ELSE v1User(url.Scheme, Split(url.Path, "/"))

(***************************************************************************)
(* parseV3URL, the slash grammar [user/]name[/series][/revision], read     *)
(* from the end.  last is the 1-based index of the last part not yet       *)
(* consumed (the code's last + 1).                                         *)
(***************************************************************************)

\* Make sure we've used all the components.
v3Done(r, last) ==
    IF last # 0 THEN Fail("unrecognized parts", "V3") ELSE Ok(r, "V3")

v3User(schema, parts, revision, series, name, last) ==
    IF last >= 1
    THEN IF ~IsValidUser(parts[last]) THEN Fail("invalid user", "V3")
         ELSE v3Done(URL(schema, parts[last], name, revision, series), last - 1)
    ELSE v3Done(URL(schema, <<>>, name, revision, series), last)

\* Name is required
v3Name(schema, parts, revision, series, last) ==
    IF last < 1 \/ ~IsValidName(parts[last]) THEN Fail("invalid name", "V3")
    ELSE v3User(schema, parts, revision, series, parts[last], last - 1)

\* v3Series without "last -= 1" after the series is taken
v3Series_KeepsLast(schema, parts, revision, last) ==
    IF last >= 1 /\ IsValidSeries(parts[last])
    THEN v3Name(schema, parts, revision, parts[last], last)
    ELSE v3Name(schema, parts, revision, <<>>, last)

v3Series(schema, parts, revision, last) ==
    IF last >= 1 /\ IsValidSeries(parts[last])
    THEN v3Name(schema, parts, revision, parts[last], last - 1)
    ELSE v3Name(schema, parts, revision, <<>>, last)

\* revision, err := strconv.Atoi(parts[last])
v3Revision(schema, parts, conv) ==
    IF conv.ok THEN v3Series(schema, parts, conv.val, Len(parts) - 1)
    ELSE v3Series(schema, parts, Unset, Len(parts))

v3Parts(schema, parts) ==
    IF Len(parts) < 1 THEN Fail("invalid name", "V3")
    ELSE IF Len(parts) > 4 THEN Fail("unrecognized parts", "V3")
    ELSE v3Revision(schema, parts, Atoi(parts[Len(parts)]))

parseV3URL(url) ==
    IF url.Scheme # <<>> /\ url.Scheme # S_cs /\ url.Scheme # S_local
    THEN Fail("invalid schema", "V3")
    ELSE v3Parts(url.Scheme, Split(url.Path, "/"))

(***************************************************************************)
(* parseV2URL, the web grammar /[u/<user>/]<name>[/<series>][/<revision>]. *)
(***************************************************************************)

v2Validate(r) ==
    IF r.User # <<>> /\ ~IsValidUser(r.User) THEN Fail("invalid user", "V2")
    ELSE IF ~IsValidName(r.Name) THEN Fail("invalid name", "V2")
    ELSE Ok(r, "V2")

\* The parts after the series: one part must be the revision, more is an
\* invalid form
v2AfterSeries(user, name, series, parts) ==
    IF Len(parts) = 1
    THEN IF ~Atoi(parts[1]).ok THEN Fail("malformed revision", "V2")
         ELSE v2Validate(URL(S_cs, user, name, Atoi(parts[1]).val, series))
    ELSE IF Len(parts) # 0 THEN Fail("invalid form", "V2")
    ELSE v2Validate(URL(S_cs, user, name, Unset, series))

\* The parts after the name: a revision, or else a series
v2AfterName(user, name, parts) ==
    IF Len(parts) = 0 THEN v2Validate(URL(S_cs, user, name, Unset, <<>>))
    ELSE IF Atoi(parts[1]).ok
         THEN v2Validate(URL(S_cs, user, name, Atoi(parts[1]).val, <<>>))
    ELSE IF ~IsValidSeries(parts[1]) THEN Fail("invalid series", "V2")
    ELSE v2AfterSeries(user, name, parts[1], Tail(parts))

v2Parts(parts) ==
    IF parts[1] = <<"u">>
    THEN IF Len(parts) < 3 THEN Fail("malformed user path", "V2")
         ELSE v2AfterName(parts[2], parts[3], Drop(parts, 3))
    ELSE v2AfterName(<<>>, parts[1], Tail(parts))

parseV2URL(url) == v2Parts(Split(Trim(url.Path, "/"), "/"))

(***************************************************************************)
(* The dispatcher.                                                         *)
(***************************************************************************)

\* v3OrV1 returning the slash grammar's error when both grammars fail
v3OrV1_KeepsV3Error(url, v3) ==
    IF v3.err = "ok" \/ parseV1URL(url).err # "ok"
    THEN [v3 EXCEPT !.via = IF v3.err = "ok" THEN <<"V3">> ELSE <<"V3", "V1">>]
    ELSE [parseV1URL(url) EXCEPT !.via = <<"V3", "V1">>]

\* result, err := parseV3URL(url); if err == nil return it, else parseV1URL
v3OrV1(url, v3) ==
    IF v3.err = "ok" THEN v3
    ELSE [parseV1URL(url) EXCEPT !.via = <<"V3", "V1">>]

\* parseNonWebURL without the special case for a leading series
parseNonWebURL_NoSpecialCase(url) == v3OrV1(url, parseV3URL(url))

parseNonWebURL(url) ==
    IF IsValidSeries(Split(url.Path, "/")[1]) THEN parseV1URL(url)
    ELSE v3OrV1(url, parseV3URL(url))

\* if curl.Schema == "" { curl.Schema = "cs" }
withDefaultSchema(res) ==
    IF res.err = "ok" /\ res.url.Schema = <<>>
    THEN [res EXCEPT !.url.Schema = S_cs]
    ELSE res

parseDispatch(u) ==
    IF u.err THEN [err |-> "cannot parse", url |-> NilURL, via |-> <<>>]
    ELSE IF u.RawQuery # <<>> \/ u.Fragment # <<>> \/ u.User
         THEN [err |-> "unrecognized parts", url |-> NilURL, via |-> <<>>]
    ELSE IF u.Opaque # <<>>
         THEN withDefaultSchema(parseNonWebURL([u EXCEPT !.Path = u.Opaque]))
    ELSE IF u.Scheme = S_http \/ u.Scheme = S_https
         THEN withDefaultSchema(parseV2URL(u))
    ELSE withDefaultSchema(parseNonWebURL(u))

ParseURL(url) == parseDispatch(gourlParse(url))

\* URL.String: schema:[user/]name[/series][/revision]
String(u) ==
    u.Schema \o <<":">>
    \o Join((IF u.User # <<>> THEN <<u.User>> ELSE <<>>)
            \o <<u.Name>>
            \o (IF u.Series # <<>> THEN <<u.Series>> ELSE <<>>)
            \o (IF u.Revision >= 0 THEN <<Itoa(u.Revision)>> ELSE <<>>),
            <<"/">>)

\* inferSeries without the test "u.Series == \"\"" around the assignment
inferSeries_Overwrites(p, defaultSeries) ==
    IF p.err # "ok" THEN p
    ELSE IF defaultSeries # <<>> THEN [p EXCEPT !.url.Series = defaultSeries]
    ELSE IF p.url.Series = <<>>
         THEN [err |-> "unresolved series", url |-> NilURL, via |-> p.via]
    ELSE p

\* The part of InferURL after u, err := ParseURL(src)
inferSeries(p, defaultSeries) ==
    IF p.err # "ok" THEN p
    ELSE IF p.url.Series = <<>>
         THEN IF defaultSeries = <<>>
              THEN [err |-> "unresolved series", url |-> NilURL, via |-> p.via]
              ELSE [p EXCEPT !.url.Series = defaultSeries]
    ELSE p

InferURL(src, defaultSeries) == inferSeries(ParseURL(src), defaultSeries)

\* WithRevision setting the field through the receiver and returning it
WithRevision_InPlace(h, p, revision) ==
    [heap |-> [h EXCEPT ![p].Revision = revision], ptr |-> p]

\* URL.WithRevision on the object at address p of the heap h: the new heap
\* and the address returned.
WithRevision(h, p, revision) ==
    [heap |-> Append(h, [h[p] EXCEPT !.Revision = revision]), ptr |-> Len(h) + 1]

(***************************************************************************)
(* Quote.  A byte is a one-character string; ByteValue gives the value of  *)
(* the bytes of the alphabet that Quote does not copy.                     *)
(***************************************************************************)

Upper ==
    {"A", "B", "C", "D", "E", "F", "G", "H", "I", "J", "K", "L", "M",
     "N", "O", "P", "Q", "R", "S", "T", "U", "V", "W", "X", "Y", "Z"}

ByteValue(b) ==
    CASE b = " " -> 32 [] b = "#" -> 35 [] b = "'" -> 39 [] b = "+" -> 43
      [] b = "/" -> 47 [] b = ":" -> 58 [] b = "?" -> 63 [] b = "@" -> 64
      [] b = "_" -> 95 [] b = "~" -> 126

HexDigit(d) ==
    IF d < 10 THEN DigitChar(d)
    ELSE CASE d = 10 -> "a" [] d = 11 -> "b" [] d = 12 -> "c"
           [] d = 13 -> "d" [] d = 14 -> "e" [] d = 15 -> "f"

\* fmt.Sprintf("_%02x_", b) for a byte b
SprintfHex(b) ==
    <<"_", HexDigit(ByteValue(b) \div 16), HexDigit(ByteValue(b) % 16), "_">>

\* The cases of the switch that copy b
IsSafeByte(b) == b \in Letters \cup Upper \cup Digits \cup {".", "-"}

\* quoteByte with the underscore among the bytes that are copied
quoteByte_UnderscoreSafe(b) ==
    IF IsSafeByte(b) \/ b = "_" THEN <<b>> ELSE SprintfHex(b)

\* The body of the loop: what is appended to safe for the byte b
quoteByte(b) == IF IsSafeByte(b) THEN <<b>> ELSE SprintfHex(b)

RECURSIVE Quote(_)
Quote(str) ==
    IF str = <<>> THEN <<>>
    ELSE quoteByte(Head(str)) \o Quote(Tail(str))

(***************************************************************************)
(* The files store.Get works on, and verify.  A file is its data, a        *)
(* sequence of blocks; writer and reported record who put it at its path   *)
(* ("get" for store.Get, with the digest the store had reported to that    *)
(* call; "other" for a file found there).  The SHA-256 digest of data is   *)
(* modelled as data under a tag: equal for equal data only.                *)
(***************************************************************************)

NoFile == [exists |-> FALSE, data |-> <<>>, writer |-> "none", reported |-> <<>>]

File(data, writer, reported) ==
    [exists |-> TRUE, data |-> data, writer |-> writer, reported |-> reported]

\* hex.EncodeToString of the SHA-256 sum of data
Sha256(data) == <<"sha256">> \o data

\* verify(path, digest) for the file at path: "ok" is a nil error
verify(file, dig) ==
    IF ~file.exists THEN "no file"
    ELSE IF Sha256(file.data) # dig THEN "bad sha256"
    ELSE "ok"

S_charm == <<".", "c", "h", "a", "r", "m">>

\* Quote(curl.String()) + ".charm", the file's name in the cache directory
CachePath(u) == Quote(String(u)) \o S_charm

(***************************************************************************)
(* The inputs: a prefix and up to MaxSegs path segments joined by '/'.     *)
(***************************************************************************)

MaxSegs == 4

W_foo == <<"f", "o", "o">>
W_tbob == <<"~", "b", "o", "b">>
W_one == <<"1">>
W_neg == <<"-", "5">>
W_foo1 == <<"f", "o", "o", "-", "1">>
\* foo-99999999999999999999: twenty digits, beyond int at either width
W_big ==
    <<"f", "o", "o", "-", "9", "9", "9", "9", "9", "9", "9", "9", "9", "9",
      "9", "9", "9", "9", "9", "9", "9", "9", "9", "9">>
S_defseries == <<"d", "e", "f", "s", "e", "r", "i", "e", "s">>

Words == {<<>>, W_foo, S_trusty, W_tbob, W_one, W_neg, W_foo1}

P_cs == S_cs \o <<":">>
P_local == S_local \o <<":">>
P_bs == <<"b", "s", ":">>
P_web == S_https \o <<":", "/", "/", "h", "/">>
P_webu == P_web \o <<"u", "/">>
P_webauth == S_http \o <<":", "/", "/", "b", "@", "h", "/">>

Prefixes == {<<>>, P_cs, P_local, P_web, P_webu}

SegSeqs == UNION {[1..n -> Words] : n \in 1..MaxSegs}

\* Every prefix before every path
Regular == {p \o Join(segs, <<"/">>) : p \in Prefixes, segs \in SegSeqs}

\* One segment after an unknown scheme, after user information, before a
\* query, before a fragment, and after an empty scheme
Irregular ==
    UNION {{P_bs \o w, P_webauth \o w, P_cs \o w \o <<"?", "q">>,
            P_cs \o w \o <<"#", "f">>, <<":">> \o w} : w \in Words}

\* A name followed by a hyphen and a digit run beyond int, as the last of
\* one or two segments
Overlong ==
    {p \o Join(segs \o <<W_big>>, <<"/">>) :
        p \in Prefixes, segs \in {<<>>} \cup {<<w>> : w \in Words}}

Inputs == Regular \cup Irregular \cup Overlong

\* The inputs of the compact grammar: a name segment of up to MaxNameLen
\* characters (or one of the test table's names) as the only segment, after
\* a series and after a ~user, bare or after cs:
MaxNameLen == 5

NameAlphabet == {"n", "0", "1", "-"}

W_foo12 == <<"f", "o", "o", "-", "1", "-", "2">>
W_n0n0n0 == <<"n", "0", "-", "n", "0", "-", "n", "0">>

NameSegs ==
    UNION {[1..n -> NameAlphabet] : n \in 1..MaxNameLen} \cup {W_foo12, W_n0n0n0}

Leads == {<<>>, S_trusty \o <<"/">>, W_tbob \o <<"/">>}

CompactInputs == {p \o l \o seg : p \in {<<>>, P_cs}, l \in Leads, seg \in NameSegs}

\* The inputs of Quote: every string of up to MaxQuoteLen bytes over an
\* escaped byte's own output alphabet, and two strings that spell an escape
MaxQuoteLen == 3

QuoteAlphabet == {"_", "2", "f", "/"}

QuoteInputs ==
    UNION {[1..n -> QuoteAlphabet] : n \in 0..MaxQuoteLen}
        \cup {<<"_", "2", "f", "_">>, <<"_", "2", "f", "/">>}

\* The store: two archives of two blocks that differ in the last block,
\* revisions 1 and 2, and the URLs Get is called with
MaxGets == 2

Archives == {<<"x", "y">>, <<"x", "z">>}

StoreRevisions == {1, 2}

Infos ==
    [rev : StoreRevisions, sha256 : {Sha256(a) : a \in Archives}, body : Archives]

GetURLs == {URL(S_cs, <<>>, W_foo, r, S_trusty) : r \in {Unset} \cup StoreRevisions}

CachePaths == {CachePath(u) : u \in {g \in GetURLs : g.Revision # Unset}}

Defaults == {<<>>, S_trusty, S_defseries}

Revisions == {Unset, 0, 7}

(***************************************************************************)
(* The state: the caller's input src, what ParseURL(src) returned (res),   *)
(* the objects allocated so far (heap) with the pointers url and other     *)
(* that the caller holds (0 is nil), the rendering text of *url and what   *)
(* ParseURL(text) returned (res2), and the arguments and result of InferURL*)
(* (dflt, inf) and of WithRevision (rev).                                  *)
(*                                                                         *)
(* For Quote: its argument unsafe and its result safe.                     *)
(*                                                                         *)
(* For store.Get: the charm store's answer to charm-info and the archive   *)
(* it serves (info), the files of the cache directory (cache) and the      *)
(* download's temporary file (tmp), the body of the download's response    *)
(* (resp), Get's variables curl, path and digest,                          *)
(* the number of Get calls (gets) and of download requests (requests), the *)
(* result of the last call (outcome), what a concurrent reader last read   *)
(* at a cache path (seen), and the cache as it was when the current call   *)
(* began (atCall).                                                         *)
(***************************************************************************)
VARIABLES pc, src, res, heap, url, other, rev, text, res2, dflt, inf,
          unsafe, safe,
          info, cache, tmp, resp, curl, path, digest, gets, requests, outcome,
          seen, atCall

urlVars == <<src, res, heap, url, other, rev, text, res2, dflt, inf>>

quoteVars == <<unsafe, safe>>

storeVars ==
    <<info, cache, tmp, resp, curl, path, digest, gets, requests, outcome, seen,
      atCall>>

vars == <<pc, urlVars, quoteVars, storeVars>>

NoResult == [err |-> "none", url |-> NilURL, via |-> <<>>]

UrlIdle ==
    /\ res = NoResult
    /\ heap = <<>>
    /\ url = 0
    /\ other = 0
    /\ rev = 0
    /\ text = <<>>
    /\ res2 = NoResult
    /\ dflt = <<>>
    /\ inf = NoResult

QuoteIdle == unsafe = <<>> /\ safe = <<>>

NoCall == [hit |-> FALSE, requests |-> 0, cache |-> [p \in CachePaths |-> NoFile]]

StoreIdle ==
    /\ info = [rev |-> 1, sha256 |-> <<>>, body |-> <<>>]
    /\ cache = [p \in CachePaths |-> NoFile]
    /\ tmp = NoFile
    /\ resp = <<>>
    /\ curl = NilURL
    /\ path = <<>>
    /\ digest = <<>>
    /\ gets = 0
    /\ requests = 0
    /\ outcome = "none"
    /\ seen = NoFile
    /\ atCall = NoCall

Init ==
    /\ pc = "start"
    /\ src \in Inputs
    /\ UrlIdle
    /\ QuoteIdle
    /\ StoreIdle

\* The heap after a call returned res: a successful ParseURL returns a
\* pointer to a new URL (r in "return &r, nil")
allocated(result) == IF result.err = "ok" THEN <<result.url>> ELSE <<>>

\* u, err := ParseURL(src)
CallParseURL ==
    /\ pc = "start"
    /\ res' = ParseURL(src)
    /\ heap' = allocated(res')
    /\ url' = Len(heap')
    /\ pc' = "parsed"
    /\ UNCHANGED <<src, other, rev, text, res2, dflt, inf>>
    /\ UNCHANGED <<quoteVars, storeVars>>

\* s := u.String()
CallString ==
    /\ pc = "parsed"
    /\ url # 0
    /\ text' = String(heap[url])
    /\ pc' = "rendered"
    /\ UNCHANGED <<src, res, heap, url, other, rev, res2, dflt, inf>>
    /\ UNCHANGED <<quoteVars, storeVars>>

\* ParseURL(s), as the codecs do on unmarshalling
CallReparse ==
    /\ pc = "rendered"
    /\ res2' = ParseURL(text)
    /\ pc' = "reparsed"
    /\ UNCHANGED <<src, res, heap, url, other, rev, text, dflt, inf>>
    /\ UNCHANGED <<quoteVars, storeVars>>

\* InferURL(src, d)
CallInferURL ==
    /\ pc = "start"
    /\ \E d \in Defaults :
          /\ dflt' = d
          /\ inf' = InferURL(src, d)
    /\ pc' = "inferred"
    /\ UNCHANGED <<src, res, heap, url, other, rev, text, res2>>
    /\ UNCHANGED <<quoteVars, storeVars>>

\* other := url.WithRevision(n)
CallWithRevision ==
    /\ pc = "parsed"
    /\ url # 0
    /\ \E n \in Revisions :
          LET r == WithRevision(heap, url, n)
          IN  /\ rev' = n
              /\ heap' = r.heap
              /\ other' = r.ptr
    /\ pc' = "copied"
    /\ UNCHANGED <<src, res, url, text, res2, dflt, inf>>
    /\ UNCHANGED <<quoteVars, storeVars>>

\* p.Series = d for one of the two pointers held, d differing from the
\* current value
AssignSeries ==
    /\ pc = "copied"
    /\ \E p \in {url, other}, d \in Defaults :
          /\ heap[p].Series # d
          /\ heap' = [heap EXCEPT ![p].Series = d]
    /\ pc' = "assigned"
    /\ UNCHANGED <<src, res, url, other, rev, text, res2, dflt, inf>>
    /\ UNCHANGED <<quoteVars, storeVars>>

Next ==
    \/ CallParseURL
    \/ CallString
    \/ CallReparse
    \/ CallWithRevision
    \/ AssignSeries

\* A caller that parses, renders, parses again, and copies with WithRevision
Spec == Init /\ [][Next]_vars

InferNext == CallInferURL

\* A caller of InferURL
InferSpec == Init /\ [][InferNext]_vars

CompactInit ==
    /\ pc = "start"
    /\ src \in CompactInputs
    /\ UrlIdle
    /\ QuoteIdle
    /\ StoreIdle

CompactNext == CallParseURL

\* A caller of ParseURL on the inputs of the compact grammar
CompactSpec == CompactInit /\ [][CompactNext]_vars

QuoteInit ==
    /\ pc = "start"
    /\ src = <<>>
    /\ UrlIdle
    /\ unsafe \in QuoteInputs
    /\ safe = <<>>
    /\ StoreIdle

\* safe := Quote(unsafe)
CallQuote ==
    /\ pc = "start"
    /\ safe' = Quote(unsafe)
    /\ pc' = "quoted"
    /\ UNCHANGED <<urlVars, unsafe, storeVars>>

QuoteNext == CallQuote

\* A caller of Quote
QuoteSpec == QuoteInit /\ [][QuoteNext]_vars

(***************************************************************************)
(* store.Get, one action for each of its steps that another process can    *)
(* see, a reader of the cache directory, and the charm store.              *)
(***************************************************************************)

StoreInit ==
    /\ pc = "idle"
    /\ src = <<>>
    /\ UrlIdle
    /\ QuoteIdle
    /\ info \in Infos
    /\ cache \in [CachePaths -> {NoFile} \cup {File(a, "other", <<>>) : a \in Archives}]
    /\ tmp = NoFile
    /\ resp = <<>>
    /\ curl = NilURL
    /\ path = <<>>
    /\ digest = <<>>
    /\ gets = 0
    /\ requests = 0
    /\ outcome = "none"
    /\ seen = NoFile
    /\ atCall = NoCall

\* return nil, err
GetReturns(result) ==
    /\ outcome' = result
    /\ pc' = "idle"

\* curl after the test of curl.Revision against the rev of charm-info;
\* NilURL when the two differ
resolved(u, rev_) ==
    IF u.Revision = Unset THEN WithRevision(<<u>>, 1, rev_).heap[2]
    ELSE IF u.Revision # rev_ THEN NilURL
    ELSE u

\* Get(u) up to "path := ...": MkdirAll, s.info(curl), and the revision
\* that curl names set or compared
GetInfo ==
    /\ pc = "idle"
    /\ gets < MaxGets
    /\ gets' = gets + 1
    /\ \E u \in GetURLs, ok \in BOOLEAN :
          IF ~ok
          THEN /\ GetReturns("info error")
               /\ UNCHANGED <<curl, path, digest, atCall>>
          ELSE IF resolved(u, info.rev) = NilURL
          THEN /\ GetReturns("bad revision info")
               /\ UNCHANGED <<curl, path, digest, atCall>>
          ELSE /\ curl' = resolved(u, info.rev)
               /\ path' = CachePath(resolved(u, info.rev))
               /\ digest' = info.sha256
               /\ atCall' =
                     [hit |-> verify(cache[CachePath(resolved(u, info.rev))],
                                     info.sha256) = "ok",
                      requests |-> requests,
                      cache |-> cache]
               /\ pc' = "cached"
               /\ UNCHANGED outcome
    /\ UNCHANGED <<urlVars, quoteVars, info, cache, tmp, resp, requests, seen>>

\* GetVerifyCached that takes every file of the cache as bad
GetVerifyCached_AlwaysDownloads ==
    /\ pc = "cached"
    /\ pc' = "request"
    /\ UNCHANGED <<urlVars, quoteVars, storeVars>>

\* if verify(path, digest) != nil
GetVerifyCached ==
    /\ pc = "cached"
    /\ pc' = IF verify(cache[path], digest) # "ok" THEN "request" ELSE "verify"
    /\ UNCHANGED <<urlVars, quoteVars, storeVars>>

\* resp, err := http.Get(... "/charm/" ...)
GetRequest ==
    /\ pc = "request"
    /\ requests' = requests + 1
    /\ \E ok \in BOOLEAN :
          IF ok
          THEN /\ resp' = info.body
               /\ pc' = "tempfile"
               /\ UNCHANGED outcome
          ELSE /\ GetReturns("request error")
               /\ UNCHANGED resp
    /\ UNCHANGED <<urlVars, quoteVars, info, cache, tmp, curl, path, digest, gets,
                   seen, atCall>>

\* f, err := ioutil.TempFile("", "juju-charm-download")
GetTempFile ==
    /\ pc = "tempfile"
    /\ \E ok \in BOOLEAN :
          IF ok
          THEN /\ tmp' = File(<<>>, "get", digest)
               /\ pc' = "copy"
               /\ UNCHANGED outcome
          ELSE /\ GetReturns("tempfile error")
               /\ UNCHANGED tmp
    /\ UNCHANGED <<urlVars, quoteVars, info, cache, resp, curl, path, digest, gets,
                   requests, seen, atCall>>

\* _, err = io.Copy(f, resp.Body), a block at a time; f.Close(); on an
\* error os.Remove(dlPath) and return
GetCopy ==
    /\ pc = "copy"
    /\ \E ok \in BOOLEAN :
          IF ~ok
          THEN /\ tmp' = NoFile
               /\ GetReturns("copy error")
          ELSE IF Len(tmp.data) < Len(resp)
          THEN /\ tmp' = [tmp EXCEPT !.data = Append(tmp.data, resp[Len(tmp.data) + 1])]
               /\ UNCHANGED <<pc, outcome>>
          ELSE /\ pc' = "rename"
               /\ UNCHANGED <<tmp, outcome>>
    /\ UNCHANGED <<urlVars, quoteVars, info, cache, resp, curl, path, digest, gets,
                   requests, seen, atCall>>

\* os.Rename(dlPath, path)
GetRename ==
    /\ pc = "rename"
    /\ \E ok \in BOOLEAN :
          IF ok
          THEN /\ cache' = [cache EXCEPT ![path] = tmp]
               /\ tmp' = NoFile
               /\ pc' = "verify"
               /\ UNCHANGED outcome
          ELSE /\ GetReturns("rename error")
               /\ UNCHANGED <<cache, tmp>>
    /\ UNCHANGED <<urlVars, quoteVars, info, resp, curl, path, digest, gets,
                   requests, seen, atCall>>

\* if err := verify(path, digest); err != nil return; return ReadBundle(path)
GetVerify ==
    /\ pc = "verify"
    /\ IF verify(cache[path], digest) # "ok"
       THEN GetReturns(verify(cache[path], digest))
       ELSE \E r \in {"ok", "bundle error"} : GetReturns(r)
    /\ UNCHANGED <<urlVars, quoteVars, info, cache, tmp, resp, curl, path, digest,
                   gets, requests, seen, atCall>>

\* Another process reads the file at a path of the cache directory
ReadCache ==
    /\ \E p \in CachePaths :
          /\ seen # cache[p]
          /\ seen' = cache[p]
    /\ UNCHANGED <<pc, urlVars, quoteVars, info, cache, tmp, resp, curl, path,
                   digest, gets, requests, outcome, atCall>>

\* The store gets the next revision of the charm
StorePublishes ==
    /\ \E i \in Infos :
          /\ i.rev = info.rev + 1
          /\ info' = i
    /\ UNCHANGED <<pc, urlVars, quoteVars, cache, tmp, resp, curl, path, digest,
                   gets, requests, outcome, seen, atCall>>

StoreNext ==
    \/ GetInfo
    \/ GetVerifyCached
    \/ GetRequest
    \/ GetTempFile
    \/ GetCopy
    \/ GetRename
    \/ GetVerify
    \/ ReadCache
    \/ StorePublishes

\* Callers of store.Get, one call at a time, beside a reader of the cache
StoreSpec == StoreInit /\ [][StoreNext]_vars

(***************************************************************************)
(* The claims.                                                             *)
(***************************************************************************)

\* C1: round trip: whenever ParseURL(src) succeeded with r, ParseURL of
\* r.String() succeeds too and returns a URL equal to r in all five fields.
\* (Stated for the results r whose Revision is -1 or >= 0, so that a
\* violation does not rest on the signed revisions of C3.)
C1_RoundTrip ==
    (pc = "reparsed" /\ res.url.Revision >= Unset)
        => (res2.err = "ok" /\ res2.url = res.url)

\* C2: no URL returned by ParseURL has Schema "local" and a non-empty User.
C2_LocalHasNoUser ==
    res.err = "ok" => ~(res.url.Schema = S_local /\ res.url.User # <<>>)

\* C3: every URL returned by ParseURL has Revision -1 or >= 0.
C3_RevisionUnsetOrNatural ==
    res.err = "ok" => (res.url.Revision = Unset \/ res.url.Revision >= 0)

\* C4: every URL returned by ParseURL or by InferURL has Series empty or
\* accepted by IsValidSeries.
C4_SeriesEmptyOrValid ==
    /\ res.err = "ok" => (res.url.Series = <<>> \/ IsValidSeries(res.url.Series))
    /\ inf.err = "ok" => (inf.url.Series = <<>> \/ IsValidSeries(inf.url.Series))

SchemaOfPrefix(pre) == IF pre = P_local THEN S_local ELSE S_cs

\* src is pre, a recognized series s, '/', and a valid name
IsSeriesSlashName(pre, s) ==
    /\ HasPrefix(src, pre \o s \o <<"/">>)
    /\ IsValidName(Drop(src, Len(pre) + Len(s) + 1))

\* C5: for a recognized series s and a valid name n, ParseURL of "s/n", bare
\* or after cs: or local:, runs the compact grammar only and returns
\* Series s, Name n, no User and Revision -1.
C5_SeriesFirstIsCompact ==
    \A pre \in {<<>>, P_cs, P_local} : \A s \in validSeries :
        (res.err # "none" /\ IsSeriesSlashName(pre, s))
            => res = [err |-> "ok",
                      url |-> URL(SchemaOfPrefix(pre), <<>>,
                                  Drop(src, Len(pre) + Len(s) + 1), Unset, s),
                      via |-> <<"V1">>]

\* C5 witness: "local:s/n" has been parsed where the name n is itself a
\* recognized series.
C5_Witness ==
    /\ pc = "parsed"
    /\ IsSeriesSlashName(P_local, S_trusty)
    /\ IsValidSeries(res.url.Name)
    /\ res.via = <<"V1">>

\* A revision k >= 0 written in decimal
IsDecimal(k) == Len(k) >= 1 /\ AllIn(k, Digits) /\ Atoi(k).ok

\* The four segments u, n, s, k of src = "https://h/u/<u>/<n>/<s>/<k>"
WebSegs == Split(Drop(src, Len(P_webu)), "/")

IsWebUserForm ==
    /\ pc = "parsed"
    /\ HasPrefix(src, P_webu)
    /\ Len(WebSegs) = 4
    /\ IsValidUser(WebSegs[1])
    /\ IsValidName(WebSegs[2])
    /\ IsValidSeries(WebSegs[3])
    /\ IsDecimal(WebSegs[4])

\* The URL {cs, u, n, s, k} is what the web form returned and what
\* "cs:u/n/s/k" returns
WebAndCsAgree ==
    /\ res.err = "ok"
    /\ res.url = URL(S_cs, WebSegs[1], WebSegs[2], Atoi(WebSegs[4]).val, WebSegs[3])
    /\ ParseURL(P_cs \o Join(WebSegs, <<"/">>)).err = "ok"
    /\ ParseURL(P_cs \o Join(WebSegs, <<"/">>)).url = res.url

C7_NeverAborts ==
    res.err # "panic" /\ res2.err # "panic" /\ inf.err # "panic"

\* C8: InferURL(src, d) returns ParseURL's error when ParseURL(src) fails;
\* the parsed URL unchanged when its Series is set; the parsed URL with only
\* Series replaced by d when its Series is empty and d is not; and the
\* 'series is not resolved' error and no URL when both are empty.
C8_InferURL ==
    pc = "inferred" =>
        LET p == ParseURL(src)
        IN  /\ p.err # "ok" => (inf.err = p.err /\ inf.url = NilURL)
            /\ (p.err = "ok" /\ p.url.Series # <<>>)
                   => (inf.err = "ok" /\ inf.url = p.url)
            /\ (p.err = "ok" /\ p.url.Series = <<>> /\ dflt # <<>>)
                   => (inf.err = "ok" /\ inf.url = [p.url EXCEPT !.Series = dflt])
            /\ (p.err = "ok" /\ p.url.Series = <<>> /\ dflt = <<>>)
                   => (inf.err = "unresolved series" /\ inf.url = NilURL)

\* C8 witness: InferURL was called with a non-empty default on an input
\* that parses with a series of its own.
C8_Witness ==
    /\ pc = "inferred"
    /\ dflt = S_defseries
    /\ inf.err = "ok"
    /\ inf.url.Series = S_trusty
    /\ inf.url.User # <<>>

\* The path of a compact-form input and the prefix of its explicit form
CompactPath(s) ==
    IF HasPrefix(s, P_cs) THEN Drop(s, Len(P_cs))
    ELSE IF HasPrefix(s, P_local) THEN Drop(s, Len(P_local))
    ELSE s

ExplicitPrefix(s) == IF HasPrefix(s, P_local) THEN P_local ELSE P_cs

\* s is [schema:][~user/]name[-rev]
IsVague(s) ==
    \/ Len(Split(CompactPath(s), "/")) = 1
    \/ /\ Len(Split(CompactPath(s), "/")) = 2
       /\ HasPrefix(Split(CompactPath(s), "/")[1], <<"~">>)

\* schema:[~user/]d/name[-rev]
Explicit(s, d) ==
    LET segs == Split(CompactPath(s), "/")
    IN  ExplicitPrefix(s)
        \o (IF Len(segs) = 2 THEN segs[1] \o <<"/">> ELSE <<>>)
        \o d \o <<"/">> \o segs[Len(segs)]

InferredFromVague == pc = "inferred" /\ dflt # <<>> /\ IsVague(src) /\ inf.err = "ok"

ExplicitAgrees ==
    /\ ParseURL(Explicit(src, dflt)).err = "ok"
    /\ ParseURL(Explicit(src, dflt)).url = inf.url

\* C9: for every non-empty default d and compact input v without a series
\* on which InferURL(v, d) succeeds, the result equals ParseURL of v with d
\* written as its series segment.
C9_InferMatchesExplicit == InferredFromVague => ExplicitAgrees

\* The objects of url and other differ only in Revision, which is rev in
\* the copy; the original is what ParseURL returned.
CopyIsFresh ==
    pc = "copied" =>
        /\ other # url
        /\ heap[other] = [heap[url] EXCEPT !.Revision = rev]
        /\ heap[url] = res.url

\* An assignment through one of the two pointers leaves the object of the
\* other as it was.
AssignmentIsLocal ==
    (pc = "copied" /\ pc' = "assigned")
        => (heap'[url] = heap[url] \/ heap'[other] = heap[other])

\* C10: WithRevision(n) returns a new URL with Revision n and the other
\* fields of u; u keeps its value; the result is a distinct object, also
\* when n is u's Revision; a later change to either does not show in the
\* other.
C10_WithRevisionCopies == []CopyIsFresh /\ [][AssignmentIsLocal]_vars

\* C10 witness: WithRevision was called with the revision u already had,
\* and one of the two was assigned to afterwards.
C10_Witness ==
    /\ pc = "assigned"
    /\ rev = res.url.Revision
    /\ heap[url] # heap[other]

\* src has no schema prefix
IsBare == Index(src, ":") < 0

\* C14: for every bare input s on which ParseURL succeeds, String() of the
\* returned URL is "cs:" followed by s exactly, for compact-form inputs as
\* well as for slash-form inputs.
C14_BareStringIsCsPlusInput ==
    (pc = "rendered" /\ IsBare) => text = P_cs \o src

\* The segments of the path of the web input src, and those after the name
WebPath == Split(Trim(Drop(src, Len(P_web) - 1), "/"), "/")

AfterName == IF WebPath[1] = <<"u">> THEN Drop(WebPath, 3) ELSE Tail(WebPath)

\* /<name>/<integer>/... or /u/<user>/<name>/<integer>/... with a non-empty
\* segment after the integer
IsIntegerThenMore ==
    /\ HasPrefix(src, P_web)
    /\ Len(AfterName) >= 2
    /\ Atoi(AfterName[1]).ok
    /\ \E i \in 2..Len(AfterName) : AfterName[i] # <<>>

\* C15: ParseURL fails on a web path in which the segment right after the
\* name is an integer and one or more non-empty segments follow it.
C15_WebRejectsLeftover ==
    (res.err # "none" /\ IsIntegerThenMore) => res.err # "ok"

\* What the grammars of parseNonWebURL are given for the input s
NonWebURL(s) ==
    IF gourlParse(s).Opaque # <<>>
    THEN [gourlParse(s) EXCEPT !.Path = gourlParse(s).Opaque]
    ELSE gourlParse(s)

\* src reaches parseNonWebURL and its first path segment is no series
IsLegacyInput ==
    /\ res.err # "none"
    /\ ~gourlParse(src).err
    /\ gourlParse(src).RawQuery = <<>>
    /\ gourlParse(src).Fragment = <<>>
    /\ ~gourlParse(src).User
    /\ gourlParse(src).Opaque # <<>> \/ gourlParse(src).Scheme \notin {S_http, S_https}
    /\ ~IsValidSeries(Split(NonWebURL(src).Path, "/")[1])

NameSeg == Split(src, "/")[Len(Split(src, "/"))]

LastSeg == IF HasPrefix(NameSeg, P_cs) THEN Drop(NameSeg, Len(P_cs)) ELSE NameSeg

\* The 1-based positions of a hyphen that is not the first character and is
\* followed by a non-empty run of digits up to the end (at most one)
SplitPoints(seg) ==
    {k \in 2..(Len(seg) - 1) : seg[k] = "-" /\ AllIn(Drop(seg, k), Digits)}

SplitPoint(seg) == CHOOSE k \in SplitPoints(seg) : TRUE

\* The name and the revision the rule gives for a segment
RuleName(seg) ==
    IF SplitPoints(seg) = {} THEN seg ELSE Take(seg, SplitPoint(seg) - 1)

RuleRevision(seg) ==
    IF SplitPoints(seg) = {} THEN Unset ELSE Atoi(Drop(seg, SplitPoint(seg))).val

\* The compact grammar was the last one run on src
ByCompact == res.err # "none" /\ Len(res.via) >= 1 /\ res.via[Len(res.via)] = "V1"

\* C17: in the compact grammar the name segment is split only when it ends
\* in a non-empty run of digits preceded by a hyphen that is not its first
\* character: then Name is the part left of the hyphen and Revision the
\* digit run, otherwise Name is the whole segment and Revision is -1; the
\* name is validated after the split, so that a segment whose left part is
\* no valid name fails with the invalid-name error.  (Stated for digit runs
\* of up to MaxNameLen digits.)
C17_CompactSplit ==
    ByCompact =>
        IF IsValidName(RuleName(LastSeg))
        THEN /\ res.err = "ok"
             /\ res.url.Name = RuleName(LastSeg)
             /\ res.url.Revision = RuleRevision(LastSeg)
        ELSE res.err = "invalid name"

\* C17 witness: "cs:foo-1-2" was given to the compact grammar after the
\* slash grammar failed, and failed there as an invalid name.
C17_Witness ==
    /\ pc = "parsed"
    /\ src = P_cs \o W_foo12
    /\ RuleName(LastSeg) = <<"f", "o", "o", "-", "1">>
    /\ res.via = <<"V3", "V1">>
    /\ res.err = "invalid name"

\* C11: Quote is injective: no other input has the result of Quote(unsafe);
\* the result has one byte for each byte of unsafe that is a letter, a
\* digit, '.' or '-', and '_', two lower-case hex digits and '_' for each
\* other byte; an input of safe bytes only is returned unchanged.
C11_QuoteInjective ==
    pc = "quoted" =>
        /\ \A b \in QuoteInputs : b # unsafe => Quote(b) # safe
        /\ Len(safe) = Len(unsafe)
               + 3 * Cardinality({i \in 1..Len(unsafe) : ~IsSafeByte(unsafe[i])})
        /\ \A i \in 1..Len(safe) :
               IsSafeByte(safe[i]) \/ safe[i] = "_"
        /\ AllIn(unsafe, Letters \cup Upper \cup Digits \cup {".", "-"})
               => safe = unsafe

\* C11 witness: "_2f/" was quoted: an input that spells an escape, followed
\* by the byte that escape stands for.
C11_Witness ==
    /\ pc = "quoted"
    /\ unsafe = <<"_", "2", "f", "/">>
    /\ safe = <<"_", "5", "f", "_", "2", "f", "_", "2", "f", "_">>

\* C12: a file that store.Get put at a cache path, as a concurrent reader
\* finds it there at any moment, has the SHA-256 digest the store reported
\* to that call: Get renames the download into place only after checking
\* its digest, so the path never holds a partial or a mismatching download.
C12_InstalledIsVerified ==
    seen.writer = "get" => Sha256(seen.data) = seen.reported

\* From the moment Get has its path and digest, when the cache held a file
\* with that digest: no download request was made and the cache is as it was
HitSkipsDownload ==
    atCall.hit => (requests = atCall.requests /\ cache = atCall.cache)

\* A call that follows a successful one and resolves to the same path and
\* digest finds the cache holding a file with that digest
SecondGetHits ==
    (pc = "idle" /\ pc' = "cached" /\ outcome = "ok" /\ path' = path /\ digest' = digest)
        => atCall'.hit

\* C13: when the cache path of the resolved URL holds a file with the
\* digest the store reports, Get makes no download request and leaves the
\* file unchanged; hence a second Get for the same URL after a successful
\* first one, the store's revision and digest unchanged, downloads nothing.
C13_GetIdempotent == []HitSkipsDownload /\ [][SecondGetHits]_vars

\* C13 witness: two calls have returned, the first after its one download,
\* the second successfully on the file the first left, with no request.
C13_Witness ==
    /\ pc = "idle"
    /\ gets = 2
    /\ outcome = "ok"
    /\ atCall.hit
    /\ atCall.requests = 1
    /\ requests = 1
    /\ cache[path].writer = "get"

====
